---------------------------- MODULE Spec2Model ----------------------------
(***************************************************************************)
(* Model of the binary-option probability pipeline of                      *)
(* leenleenaerts/binary_options_crypto_pricing.                            *)
(*                                                                         *)
(* Four programs share the pipeline:                                       *)
(*   "any"    ITM probabilities for any strike and exp date.py  (one run)  *)
(*   "sep"    printing continuously/print ETH SEP.py       (while True)    *)
(*   "aug25"  printing continuously/print ETH AUG25.py     (while True)    *)
(*   "thales" thales_traded_exp_date.py  (two find_probability calls)      *)
(*                                                                         *)
(* Numbers.  Python floats are modelled by exact rationals <<n, d>> with   *)
(* d > 0 in lowest terms; <<0, 0>> is NaN (numpy's 0.0/0.0).  Times are    *)
(* whole hours; the division by 365*24*60*60 is a change of unit that is   *)
(* absorbed in the rate, so np.exp(t * discount_rate) is GrowthBase^t.     *)
(***************************************************************************)
EXTENDS Integers, Sequences, FiniteSets, TLC

(***************************************************************************)
(* Exact rational arithmetic standing for float arithmetic.                *)
(***************************************************************************)
Abs(n) == IF n < 0 THEN -n ELSE n

RECURSIVE GCD(_, _)
GCD(a, b) == IF b = 0 THEN a ELSE GCD(b, a % b)

NaN == <<0, 0>>

IsNaN(x) == x[2] = 0

Norm(n, d) ==
    LET g == GCD(Abs(n), Abs(d))
        s == IF d < 0 THEN -1 ELSE 1
    IN  <<s * (n \div g), s * (d \div g)>>

Rat(n) == <<n, 1>>

\* a + b, over the least common denominator
FAdd(a, b) ==
    IF IsNaN(a) \/ IsNaN(b) THEN NaN
    ELSE LET g == GCD(a[2], b[2])
         IN  Norm(a[1] * (b[2] \div g) + b[1] * (a[2] \div g), (a[2] \div g) * b[2])

FNeg(a) == IF IsNaN(a) THEN NaN ELSE <<-a[1], a[2]>>

FSub(a, b) == FAdd(a, FNeg(b))

\* a * b, cancelling across before multiplying
FMul(a, b) ==
    IF IsNaN(a) \/ IsNaN(b) THEN NaN
    ELSE LET g1 == GCD(Abs(a[1]), b[2])
             g2 == GCD(Abs(b[1]), a[2])
         IN  Norm((a[1] \div g1) * (b[1] \div g2), (a[2] \div g2) * (b[2] \div g1))

\* numpy true division: x / 0.0 is nan for x = 0 (a RuntimeWarning, no
\* exception).  A nonzero numerator over zero would be +-inf; the pipeline
\* only ever divides a difference of two evaluations at the same abscissa by
\* a zero dstrike, so the numerator is 0 whenever the divisor is.
FDiv(a, b) ==
    IF IsNaN(a) \/ IsNaN(b) THEN NaN
    ELSE IF b[1] = 0 THEN NaN
    ELSE FMul(a, Norm(b[2], b[1]))

FLeq(a, b) == a[1] * b[2] <= b[1] * a[2]

FLess(a, b) == a[1] * b[2] < b[1] * a[2]

RECURSIVE FPow(_, _)
FPow(base, n) ==
    IF n = 0 THEN Rat(1)
    ELSE IF n < 0 THEN FDiv(Rat(1), FPow(base, -n))
    ELSE FMul(base, FPow(base, n - 1))


(***************************************************************************)
(* scipy.interpolate.interp1d(x, y, kind='quadratic',                      *)
(* fill_value='extrapolate'), the one library call every program makes.    *)
(* The constructor raises ValueError when x and y differ in length, when   *)
(* there are fewer than 3 points, and (make_interp_spline) when x holds a  *)
(* duplicate.  Otherwise it sorts the points by x and builds the           *)
(* interpolating quadratic spline whose interior knots are the midpoints   *)
(* (x[j] + x[j+1]) / 2 for j = 2 .. n-2; with n = 3 that is the parabola   *)
(* through the three points.  Outside [x[1], x[n]] the end pieces are      *)
(* continued (extrapolation).  A NaN among y makes every value NaN.        *)
(***************************************************************************)
QuadraticOrder == 2

HasDuplicates(xs) == \E i, j \in 1..Len(xs) : i < j /\ xs[i] = xs[j]

Interp1dRaises(xs, ys) ==
    \/ Len(xs) # Len(ys)
    \/ Len(xs) < QuadraticOrder + 1
    \/ HasDuplicates(xs)

\* np.argsort(x, kind="mergesort"): the permutation sorting xs (stable insertion)
RECURSIVE InsertIdx(_, _, _)
InsertIdx(xs, perm, i) ==
    IF perm = <<>> THEN <<i>>
    ELSE IF FLess(xs[i], xs[Head(perm)]) THEN <<i>> \o perm
    ELSE <<Head(perm)>> \o InsertIdx(xs, Tail(perm), i)

RECURSIVE ArgSort(_, _)
ArgSort(xs, n) == IF n = 0 THEN <<>> ELSE InsertIdx(xs, ArgSort(xs, n - 1), n)

Permute(s, perm) == [i \in 1..Len(perm) |-> s[perm[i]]]

\* A quantity c + k * lambda, lambda being the slope of the first piece at x[1]
AffAdd(p, q) == <<FAdd(p[1], q[1]), FAdd(p[2], q[2])>>
AffSub(p, q) == <<FSub(p[1], q[1]), FSub(p[2], q[2])>>
AffScale(p, r) == <<FMul(p[1], r), FMul(p[2], r)>>
AffConst(r) == <<r, Rat(0)>>
AffAt(p, lambda) == FAdd(p[1], FMul(p[2], lambda))

\* Left end of piece j (the knot vector of make_interp_spline for k = 2)
Break(xs, j) ==
    IF j = 1 THEN xs[1]
    ELSE IF j = Len(xs) - 1 THEN xs[Len(xs)]
    ELSE FDiv(FAdd(xs[j], xs[j + 1]), Rat(2))

\* Piece j is A + B (x - Break(j)) + C (x - Break(j))^2 and passes through
\* point j + 1; pieces join with a continuous first derivative.
RECURSIVE PieceAff(_, _, _)
PieceAff(xs, ys, j) ==
    LET prev == PieceAff(xs, ys, j - 1)
        w == FSub(Break(xs, j), Break(xs, j - 1))
        A == IF j = 1 THEN AffConst(ys[1])
             ELSE AffAdd(prev[1], AffAdd(AffScale(prev[2], w), AffScale(prev[3], FMul(w, w))))
        B == IF j = 1 THEN <<Rat(0), Rat(1)>>
             ELSE AffAdd(prev[2], AffScale(prev[3], FMul(Rat(2), w)))
        u == FSub(xs[j + 1], Break(xs, j))
        C == AffScale(AffSub(AffSub(AffConst(ys[j + 1]), A), AffScale(B, u)),
                      FDiv(Rat(1), FMul(u, u)))
    IN  <<A, B, C>>

\* The last piece also passes through the last point: that fixes lambda.
SplineLambda(xs, ys) ==
    LET n == Len(xs)
        last == PieceAff(xs, ys, n - 2)
        v == FSub(xs[n], Break(xs, n - 2))
        lhs == AffAdd(last[1], AffAdd(AffScale(last[2], v), AffScale(last[3], FMul(v, v))))
    IN  FDiv(FSub(ys[n], lhs[1]), lhs[2])

\* The fitted object: the sorted abscissae and each piece's <<A, B, C>>.
Interp1d(x, y) ==
    LET perm == ArgSort(x, Len(x))
        xs == Permute(x, perm)
        ys == Permute(y, perm)
        lambda == SplineLambda(xs, ys)
    IN  IF \E i \in 1..Len(y) : IsNaN(y[i])
        THEN [nan |-> TRUE, x |-> xs, y |-> ys, breaks |-> <<>>, coef |-> <<>>]
        ELSE [nan |-> FALSE, x |-> xs, y |-> ys,
              breaks |-> [j \in 1..(Len(xs) - 2) |-> Break(xs, j)],
              coef |-> [j \in 1..(Len(xs) - 2) |->
                          LET p == PieceAff(xs, ys, j)
                          IN  <<AffAt(p[1], lambda), AffAt(p[2], lambda), AffAt(p[3], lambda)>>]]

\* Interpolation(x): the piece holding x, the end pieces outside the data
RECURSIVE PieceOf(_, _, _)
PieceOf(f, x, j) ==
    IF j = 1 THEN 1
    ELSE IF FLeq(f.breaks[j], x) THEN j
    ELSE PieceOf(f, x, j - 1)

Evaluate(f, x) ==
    IF f.nan \/ IsNaN(x) THEN NaN
    ELSE LET j == PieceOf(f, x, Len(f.breaks))
             u == FSub(x, f.breaks[j])
         IN  FAdd(f.coef[j][1], FMul(u, FAdd(f.coef[j][2], FMul(f.coef[j][3], u))))

NoFit == [nan |-> TRUE, x |-> <<>>, y |-> <<>>, breaks |-> <<>>, coef |-> <<>>]

(***************************************************************************)
(* Bounds of the model.                                                    *)
(***************************************************************************)
\* Iterations of a while True loop that are explored
MaxIter == 2

(***************************************************************************)
(* Time.  A datetime is a whole number of hours since 24 Aug 2023 00:00.   *)
(***************************************************************************)
HoursPerDay == 24

\* timedelta(hours=2) added to every expiration date
ExpiryOffsetHours == 2

\* Hour of the day up to which an instrument of that day is still listed
\* (expiration_time = datetime(2023, 8, 25, 10) for the 25AUG23 options)
ListingEndHour == 10

\* (a - b).total_seconds() / (365*24*60*60): a difference of datetimes, here
\* in hours; the constant divisor rescales every time alike and the rate
\* below is per the same unit
YearsBetween(a, b) == Rat(a - b)

\* datetime.strptime(token, "%d%b%y"): midnight of the day
StrpTime(token) ==
    CASE token = "25AUG23" -> 1 * HoursPerDay
      [] token = "26AUG23" -> 2 * HoursPerDay
      [] token = "27AUG23" -> 3 * HoursPerDay
      [] token = "28AUG23" -> 4 * HoursPerDay

\* dt.strftime("%#d%b%y").upper() (and "%e%b%y" followed by strip()): the
\* day's token, whatever the hour
StrfTime(dt) ==
    CASE dt \div HoursPerDay = 1 -> "25AUG23"
      [] dt \div HoursPerDay = 2 -> "26AUG23"
      [] dt \div HoursPerDay = 3 -> "27AUG23"
      [] dt \div HoursPerDay = 4 -> "28AUG23"
      [] OTHER -> "other"

(***************************************************************************)
(* The discount factor.  np.exp is modelled on the arguments the programs  *)
(* give it, whole hours of time times the rate: np.exp(h hours * rate) is  *)
(* GrowthBase^h, so that exp(a + b) = exp(a) exp(b) and exp(-a) = 1/exp(a) *)
(* hold as they do for the real exponential.                               *)
(***************************************************************************)
DiscountRate == <<21, 400>>

GrowthBase == <<3, 2>>

NpExp(x, rate) == FPow(GrowthBase, FDiv(x, rate)[1])

(***************************************************************************)
(* The data source (Deribit).  An instrument "COIN-DATE-STRIKE-KIND" with  *)
(* its order book's mark_price is a record; a market is the index price    *)
(* and the list of instruments one run (or loop iteration) is answered     *)
(* from.                                                                   *)
(***************************************************************************)
\* dstrike = price / 10000
DStrikeDivisor == 10000

Quote(date, strike, kind, m) ==
    [date |-> date, strike |-> strike, kind |-> kind, mark_price |-> Norm(m, DStrikeDivisor)]

Calls(date, pts) == [i \in 1..Len(pts) |-> Quote(date, pts[i][1], "C", pts[i][2])]

BookFull ==
    Calls("25AUG23", <<<<7, 5>>, <<10, 3>>, <<13, 2>>, <<14, 1>>>>)
    \o <<Quote("25AUG23", 10, "P", 2)>>
    \o Calls("26AUG23", <<<<7, 6>>, <<10, 4>>, <<13, 3>>>>)
    \o Calls("27AUG23", <<<<6, 9>>, <<8, 7>>, <<10, 5>>, <<12, 4>>, <<13, 3>>>>)

BookUnsorted ==
    Calls("26AUG23", <<<<13, 3>>, <<7, 6>>>>)
    \o Calls("25AUG23", <<<<10, 3>>, <<13, 1>>, <<7, 4>>>>)
    \o Calls("27AUG23", <<<<10, 6>>, <<8, 7>>, <<12, 4>>>>)
    \o Calls("26AUG23", <<<<10, 4>>>>)

BookDuplicate ==
    Calls("25AUG23", <<<<7, 5>>, <<10, 3>>, <<10, 3>>, <<13, 2>>>>)
    \o Calls("26AUG23", <<<<7, 6>>, <<10, 4>>, <<13, 3>>>>)
    \o Calls("27AUG23", <<<<8, 7>>, <<10, 5>>, <<12, 4>>>>)

BookThin ==
    Calls("25AUG23", <<<<6, 6>>, <<7, 5>>, <<10, 3>>, <<14, 1>>>>)
    \o Calls("26AUG23", <<<<7, 6>>, <<10, 4>>, <<13, 3>>>>)
    \o Calls("27AUG23", <<<<8, 7>>, <<10, 5>>, <<12, 4>>>>)

BookTwoDates ==
    Calls("25AUG23", <<<<7, 5>>, <<10, 3>>, <<13, 2>>>>)
    \o Calls("26AUG23", <<<<7, 6>>, <<10, 4>>, <<13, 3>>>>)

BookLate ==
    Calls("26AUG23", <<<<7, 6>>, <<10, 4>>, <<13, 3>>>>)
    \o Calls("27AUG23", <<<<8, 7>>, <<10, 5>>, <<12, 4>>>>)
    \o Calls("28AUG23", <<<<7, 8>>, <<9, 7>>, <<10, 6>>, <<13, 5>>>>)

\* Call prices that fall with the strike, steeply between 7 and 8
BookConvex ==
    Calls("25AUG23", <<<<7, 121>>, <<8, 49>>, <<11, 25>>>>)
    \o Calls("26AUG23", <<<<7, 6>>, <<10, 4>>, <<13, 3>>>>)
    \o Calls("27AUG23", <<<<8, 7>>, <<10, 5>>, <<12, 4>>>>)

\* Unscaled: spot 26500, calls at 25000, 26000, 27000 worth 3500, 2800, 2100
\* dollars (mark_price is the price in units of the underlying)
ScenarioSpot == 26500

ScenarioStrike == 26000

ScenarioStrikes == <<25000, 26000, 27000>>

ScenarioPrices == <<3500, 2800, 2100>>

BookScenario ==
    [i \in 1..Len(ScenarioStrikes) |->
        [date |-> "25AUG23", strike |-> ScenarioStrikes[i], kind |-> "C",
         mark_price |-> Norm(ScenarioPrices[i], ScenarioSpot)]]

Books == {BookFull, BookUnsorted, BookDuplicate, BookThin, BookTwoDates, BookLate}

IndexPrices == {0, 10000}

Markets ==
    [index_price : IndexPrices, book : Books]
    \cup {[index_price |-> 20000, book |-> BookFull],
          [index_price |-> 10000, book |-> BookConvex],
          [index_price |-> ScenarioSpot, book |-> BookScenario]}

\* An instrument is listed until its expiry, and the clock is never before now
Listed(m, clock) ==
    \A i \in 1..Len(m.book) : clock < StrpTime(m.book[i].date) + ListingEndHour

NoMarket == [index_price |-> 0, book |-> <<>>]

(***************************************************************************)
(* The input parameters of the programs (scaled: strikes around 10).       *)
(***************************************************************************)
Scripts == {"any", "sep", "aug25", "thales"}

PollingScripts == {"sep", "aug25"}

\* datetime.now() when the program starts
NowChoices == {25, 29, 36}

\* K, the strike of the option
TargetStrike == 10

\* The values of K a program is started with
StrikeChoices(s) ==
    IF s = "thales" THEN {TargetStrike} ELSE {TargetStrike, ScenarioStrike}

\* expiration_time of each program's query
TargetExpiration(s) ==
    CASE s = "aug25" -> 1 * HoursPerDay + ListingEndHour
      [] s = "thales" -> 1 * HoursPerDay + ExpiryOffsetHours
      [] OTHER -> 1 * HoursPerDay + 7

InitialCoin(s) == IF s \in PollingScripts THEN "ETH" ELSE "BTC"

\* __main__ of thales_traded_exp_date.py: its two queries
MainQueries ==
    << [coin |-> "BTC", strikelist |-> <<9, 10, 11>>],
       [coin |-> "ETH", strikelist |-> <<8, 14>>] >>

VARIABLES
    script,               \* which program runs
    pc,                   \* where it is
    iter,                 \* loop iterations (thales: queries) completed
    coin, K, expiration_time, discount_rate,   \* the query
    strikelist,           \* find_probability's argument
    now, time_to_expiration,
    market,               \* what the data source answers this iteration from
    price,                \* index price fetched
    dates, time_to_expirations, exp_idx,
    ITM_probabilities,
    strikes, prices,      \* the points of the strike curve
    Interpolation,        \* the last fitted curve
    fit_kind, fit_x, fit_y,  \* history: the last interp1d call of this run or
                          \* iteration, "strike" or "expiration", and its x, y
    dstrike,              \* NaN until its first assignment
    probability_ITM, predicted_probability, price_yes, price_no,
    probs,                \* find_probability's result
    output,               \* what the last print statements printed
    error,                \* "" or the exception / exit that ended the program
    query0,               \* the query as set before the run (thales: at the call)
    lastRun, prevRun      \* input and results of the last two completed iterations

vars ==
    << script, pc, iter, coin, K, expiration_time, discount_rate, strikelist, now,
       time_to_expiration, market, price, dates, time_to_expirations, exp_idx,
       ITM_probabilities, strikes, prices, Interpolation, fit_kind, fit_x, fit_y, dstrike,
       probability_ITM, predicted_probability, price_yes, price_no, probs, output,
       error, query0, lastRun, prevRun >>

queryVars == <<coin, K, expiration_time, discount_rate, strikelist>>

Query == [coin |-> coin, K |-> K, expiration_time |-> expiration_time,
          discount_rate |-> discount_rate, strikelist |-> strikelist]

Init ==
    /\ script \in Scripts
    /\ pc = IF script = "thales" THEN "main" ELSE "start"
    /\ iter = 0
    /\ coin = InitialCoin(script)
    /\ K \in StrikeChoices(script)
    /\ expiration_time = TargetExpiration(script)
    /\ discount_rate = DiscountRate
    /\ strikelist = <<>>
    /\ now \in NowChoices
    /\ time_to_expiration = YearsBetween(expiration_time, now)
    /\ market = NoMarket
    /\ price = 0
    /\ dates = <<>>
    /\ time_to_expirations = <<>>
    /\ exp_idx = 0
    /\ ITM_probabilities = <<>>
    /\ strikes = <<>>
    /\ prices = <<>>
    /\ Interpolation = NoFit
    /\ fit_kind = ""
    /\ fit_x = <<>>
    /\ fit_y = <<>>
    /\ dstrike = NaN          \* not assigned yet
    /\ probability_ITM = Rat(0)
    /\ predicted_probability = Rat(0)
    /\ price_yes = Rat(0)
    /\ price_no = Rat(0)
    /\ probs = <<>>
    /\ output = <<>>
    /\ error = ""
    /\ query0 = [coin |-> coin, K |-> K, expiration_time |-> expiration_time,
                 discount_rate |-> discount_rate, strikelist |-> strikelist]
    /\ lastRun = <<>>
    /\ prevRun = <<>>

(***************************************************************************)
(* Pure steps of the pipeline.                                             *)
(***************************************************************************)
\* get_option_name(coin): the call options
CallNames(book) ==
    LET IsCall(q) == q.kind = "C" IN SelectSeq(book, IsCall)

\* get_option_name(coin, exp_date): the calls whose name holds COIN-DATE
CallNamesFor(book, exp_date) ==
    LET Match(q) == q.kind = "C" /\ q.date = StrfTime(exp_date) IN SelectSeq(book, Match)

\* get_option_data: [strike, mark_price] for each name
PriceList(names) == [i \in 1..Len(names) |-> <<names[i].strike, names[i].mark_price>>]

InSeq(x, s) == \E i \in 1..Len(s) : s[i] = x

\* Mutation of RemoveDoubleDates: the membership test is dropped
RECURSIVE AppendEveryDate(_, _)
AppendEveryDate(names, acc) ==
    IF names = <<>> THEN acc
    ELSE AppendEveryDate(Tail(names), Append(acc, StrpTime(Head(names).date)))

\* "Remove double dates": append a date unless it is in the list already
RECURSIVE RemoveDoubleDates(_, _)
RemoveDoubleDates(names, acc) ==
    IF names = <<>> THEN acc
    ELSE LET date == StrpTime(Head(names).date)
         IN  RemoveDoubleDates(Tail(names),
                               IF InSeq(date, acc) THEN acc ELSE Append(acc, date))

TimeToExpirations(ds, n) ==
    [i \in 1..Len(ds) |-> YearsBetween(ds[i] + ExpiryOffsetHours, n)]

\* K * 0.7 <= strike <= K * 1.3.  The float products round towards K*0.7 from
\* below and K*1.3 from above by far less than the 0.1 that separates an
\* integer strike from a bound it does not meet, so the float comparison
\* decides exactly as the integer one.
InWindow(strike, k) == 7 * k <= 10 * strike /\ 10 * strike <= 13 * k

\* The filter loop: strikes.append(pair[0]); prices.append(pair[1] * price)
FilterStrikes(price_list, k) ==
    LET Keep(pair) == InWindow(pair[1], k)
        kept == SelectSeq(price_list, Keep)
    IN  [i \in 1..Len(kept) |-> kept[i][1]]

FilterPrices(price_list, k, p) ==
    LET Keep(pair) == InWindow(pair[1], k)
        kept == SelectSeq(price_list, Keep)
    IN  [i \in 1..Len(kept) |-> FMul(kept[i][2], Rat(p))]

\* find_probability's loop over the book summary: the calls of the target
\* date, every strike
BookStrikes(book, target) ==
    LET sel == CallNamesFor(book, target) IN [i \in 1..Len(sel) |-> sel[i].strike]

BookPrices(book, target, p) ==
    LET sel == CallNamesFor(book, target)
    IN  [i \in 1..Len(sel) |-> FMul(sel[i].mark_price, Rat(p))]

Rats(s) == [i \in 1..Len(s) |-> Rat(s[i])]

\* dstrike = price / 1000
DStrikeCoarse(p) == FDiv(Rat(p), Rat(1000))

\* dstrike = price / 10000
DStrike(p) == FDiv(Rat(p), Rat(DStrikeDivisor))

\* (Interpolation(K - dstrike / 2) - Interpolation(K + dstrike / 2)) / dstrike
CallSpread(f, k, ds) ==
    LET half == FDiv(ds, Rat(2))
    IN  FDiv(FSub(Evaluate(f, FSub(Rat(k), half)), Evaluate(f, FAdd(Rat(k), half))), ds)

\* np.exp(time_to_expiration * discount_rate)
Undiscount(t, rate) == NpExp(FMul(t, rate), rate)

\* np.exp(-discount_rate * time_to_expiration)
Discount(t, rate) == NpExp(FMul(FNeg(rate), t), rate)

\* price_yes = p * np.exp(-time_to_expiration * discount_rate)
PriceYes(p, t, rate) == FMul(p, NpExp(FMul(FNeg(t), rate), rate))

\* price_no = np.exp(-discount_rate * time_to_expiration) - price_yes
PriceNo(yes, t, rate) == FSub(Discount(t, rate), yes)

Hundred == 100

(***************************************************************************)
(* The programs, one action per step.  An uncaught exception (or exit())   *)
(* ends the process: pc = "crashed" (or "exited") has no successor.        *)
(***************************************************************************)
RunRecord(out) ==
    [input |-> market,
     result |-> [output |-> out, curve |-> Interpolation,
                 ITM_probabilities |-> ITM_probabilities,
                 probability_ITM |-> probability_ITM,
                 predicted_probability |-> predicted_probability,
                 price_yes |-> price_yes, price_no |-> price_no]]

\* price = get_coin_price(msg), the first statement of a run or iteration
GetCoinPrice ==
    /\ script # "thales"
    /\ pc = "start"
    /\ iter < MaxIter
    /\ \E m \in Markets :
          /\ Listed(m, now)
          /\ market' = m
          /\ price' = m.index_price
    /\ fit_kind' = ""
    /\ fit_x' = <<>>
    /\ fit_y' = <<>>
    /\ pc' = IF script = "aug25" THEN "filter" ELSE "names"
    /\ UNCHANGED << script, iter, queryVars, now, time_to_expiration, dates,
                    time_to_expirations, exp_idx, ITM_probabilities, strikes, prices,
                    Interpolation, dstrike, probability_ITM,
                    predicted_probability, price_yes, price_no, probs, output, error,
                    query0, lastRun, prevRun >>

\* Mutation of CollectDates: now = datetime.now() is taken inside the loop, an
\* hour later at each iteration
CollectDatesFreshNow ==
    /\ pc = "names"
    /\ now' = now + iter
    /\ dates' = RemoveDoubleDates(CallNames(market.book), <<>>)
    /\ time_to_expirations' = TimeToExpirations(dates', now')
    /\ ITM_probabilities' = <<>>
    /\ exp_idx' = 1
    /\ pc' = IF Len(dates') >= 1 THEN "filter" ELSE "fit_exp"
    /\ UNCHANGED << script, iter, queryVars, time_to_expiration, market, price,
                    strikes, prices, Interpolation, fit_kind, fit_x, fit_y, dstrike,
                    probability_ITM, predicted_probability, price_yes, price_no, probs,
                    output, error, query0, lastRun, prevRun >>

\* option_names, dates (without doubles), time_to_expirations, ITM_probabilities = []
CollectDates ==
    /\ pc = "names"
    /\ dates' = RemoveDoubleDates(CallNames(market.book), <<>>)
    /\ time_to_expirations' = TimeToExpirations(dates', now)
    /\ ITM_probabilities' = <<>>
    /\ exp_idx' = 1
    /\ pc' = IF Len(dates') >= 1 THEN "filter" ELSE "fit_exp"
    /\ UNCHANGED << script, iter, queryVars, now, time_to_expiration, market, price,
                    strikes, prices, Interpolation, fit_kind, fit_x, fit_y, dstrike,
                    probability_ITM, predicted_probability, price_yes, price_no, probs,
                    output, error, query0, lastRun, prevRun >>

\* get_option_data for one expiration date, then the filter loop.  With no
\* name for the date, pd.concat([]) raises ValueError.
FilterQuotes ==
    /\ pc = "filter"
    /\ LET exp_date == IF script = "aug25" THEN expiration_time ELSE dates[exp_idx]
           names == CallNamesFor(market.book, exp_date)
           raised == names = <<>>
       IN  /\ strikes' = IF raised THEN strikes ELSE FilterStrikes(PriceList(names), K)
           /\ prices' = IF raised THEN prices ELSE FilterPrices(PriceList(names), K, price)
           /\ pc' = IF raised THEN "crashed" ELSE "fit_strike"
           /\ error' = IF raised THEN "ValueError" ELSE error
    /\ UNCHANGED << script, iter, queryVars, now, time_to_expiration, market, price,
                    dates, time_to_expirations, exp_idx, ITM_probabilities,
                    Interpolation, fit_kind, fit_x, fit_y, dstrike, probability_ITM,
                    predicted_probability, price_yes, price_no, probs, output, query0,
                    lastRun, prevRun >>

\* Interpolation = interp1d(strikes, prices, kind='quadratic', fill_value='extrapolate')
FitStrikeCurve ==
    /\ pc = "fit_strike"
    /\ fit_kind' = "strike"
    /\ fit_x' = strikes
    /\ fit_y' = prices
    /\ LET raised == Interp1dRaises(strikes, prices)
       IN  /\ Interpolation' = IF raised THEN Interpolation
                               ELSE Interp1d(Rats(strikes), prices)
           /\ error' = IF raised THEN "ValueError" ELSE error
           /\ pc' = CASE raised -> "crashed"
                      [] ~raised /\ script = "thales" -> "probs"
                      [] ~raised /\ script = "aug25" -> "extract_price"
                      [] OTHER -> "extract"
    /\ UNCHANGED << script, iter, queryVars, now, time_to_expiration, market, price,
                    dates, time_to_expirations, exp_idx, ITM_probabilities, strikes,
                    prices, dstrike, probability_ITM, predicted_probability, price_yes,
                    price_no, probs, output, query0, lastRun, prevRun >>

\* Mutation of ExtractDigital: the undiscount factor grows with the position
\* of the expiration date in dates
ExtractDigitalPerDate ==
    /\ pc = "extract"
    /\ dstrike' = DStrike(price)
    /\ probability_ITM' = FMul(CallSpread(Interpolation, K, dstrike'),
                               Undiscount(FAdd(time_to_expiration, Rat(exp_idx - 1)),
                                          discount_rate))
    /\ ITM_probabilities' = Append(ITM_probabilities, probability_ITM')
    /\ exp_idx' = exp_idx + 1
    /\ pc' = IF exp_idx' <= Len(dates) THEN "filter" ELSE "fit_exp"
    /\ UNCHANGED << script, iter, queryVars, now, time_to_expiration, market, price,
                    dates, time_to_expirations, strikes, prices, Interpolation,
                    fit_kind, fit_x, fit_y, predicted_probability, price_yes, price_no,
                    probs, output, error, query0, lastRun, prevRun >>

\* dstrike, probability_ITM, ITM_probabilities.append(probability_ITM); next date
ExtractDigital ==
    /\ pc = "extract"
    /\ dstrike' = DStrike(price)
    /\ probability_ITM' = FMul(CallSpread(Interpolation, K, dstrike'),
                               Undiscount(time_to_expiration, discount_rate))
    /\ ITM_probabilities' = Append(ITM_probabilities, probability_ITM')
    /\ exp_idx' = exp_idx + 1
    /\ pc' = IF exp_idx' <= Len(dates) THEN "filter" ELSE "fit_exp"
    /\ UNCHANGED << script, iter, queryVars, now, time_to_expiration, market, price,
                    dates, time_to_expirations, strikes, prices, Interpolation,
                    fit_kind, fit_x, fit_y, predicted_probability, price_yes, price_no,
                    probs, output, error, query0, lastRun, prevRun >>

\* Interpolation = interp1d(time_to_expirations, ITM_probabilities, ...)
FitExpirationCurve ==
    /\ pc = "fit_exp"
    /\ fit_kind' = "expiration"
    /\ fit_x' = time_to_expirations
    /\ fit_y' = ITM_probabilities
    /\ LET raised == Interp1dRaises(time_to_expirations, ITM_probabilities)
       IN  /\ Interpolation' = IF raised THEN Interpolation
                               ELSE Interp1d(time_to_expirations, ITM_probabilities)
           /\ error' = IF raised THEN "ValueError" ELSE error
           /\ pc' = IF raised THEN "crashed" ELSE "price"
    /\ UNCHANGED << script, iter, queryVars, now, time_to_expiration, market, price,
                    dates, time_to_expirations, exp_idx, ITM_probabilities, strikes,
                    prices, dstrike, probability_ITM, predicted_probability, price_yes,
                    price_no, probs, output, query0, lastRun, prevRun >>

\* predicted_probability, price_yes, price_no of the two-stage programs
PriceBinary ==
    /\ pc = "price"
    /\ predicted_probability' = Evaluate(Interpolation, time_to_expiration)
    /\ price_yes' = PriceYes(predicted_probability', time_to_expiration, discount_rate)
    /\ price_no' = PriceNo(price_yes', time_to_expiration, discount_rate)
    /\ pc' = "print"
    /\ UNCHANGED << script, iter, queryVars, now, time_to_expiration, market, price,
                    dates, time_to_expirations, exp_idx, ITM_probabilities, strikes,
                    prices, Interpolation, fit_kind, fit_x, fit_y, dstrike,
                    probability_ITM, probs, output, error, query0, lastRun, prevRun >>

\* The any-strike program's prints (the values, before their formatting); the
\* plot that follows reads the lists and changes nothing.
PrintResults ==
    /\ pc = "print"
    /\ script = "any"
    /\ output' = << Rat(price), FMul(Rat(Hundred), predicted_probability),
                    FMul(Rat(Hundred), price_yes), FMul(Rat(Hundred), price_no) >>
    /\ iter' = iter + 1
    /\ prevRun' = lastRun
    /\ lastRun' = <<RunRecord(output')>>
    /\ pc' = "done"
    /\ UNCHANGED << script, queryVars, now, time_to_expiration, market, price, dates,
                    time_to_expirations, exp_idx, ITM_probabilities, strikes, prices,
                    Interpolation, fit_kind, fit_x, fit_y, dstrike, probability_ITM,
                    predicted_probability, price_yes, price_no, probs, error, query0 >>

\* print(f"ETH-AUG        {2 * 100 * probability_ITM:.2f} %"), then the loop repeats
PrintSep ==
    /\ pc = "print"
    /\ script = "sep"
    /\ output' = << FMul(Rat(2 * Hundred), probability_ITM) >>
    /\ iter' = iter + 1
    /\ prevRun' = lastRun
    /\ lastRun' = <<RunRecord(output')>>
    /\ pc' = "start"
    /\ UNCHANGED << script, queryVars, now, time_to_expiration, market, price, dates,
                    time_to_expirations, exp_idx, ITM_probabilities, strikes, prices,
                    Interpolation, fit_kind, fit_x, fit_y, dstrike, probability_ITM,
                    predicted_probability, price_yes, price_no, probs, error, query0 >>

\* AUG25: price_yes is the call spread itself, probability_ITM its undiscounted value
ExtractAndPrice ==
    /\ pc = "extract_price"
    /\ dstrike' = DStrike(price)
    /\ price_yes' = CallSpread(Interpolation, K, dstrike')
    /\ probability_ITM' = FMul(price_yes', Undiscount(time_to_expiration, discount_rate))
    /\ price_no' = PriceNo(price_yes', time_to_expiration, discount_rate)
    /\ pc' = "print_aug25"
    /\ UNCHANGED << script, iter, queryVars, now, time_to_expiration, market, price,
                    dates, time_to_expirations, exp_idx, ITM_probabilities, strikes,
                    prices, Interpolation, fit_kind, fit_x, fit_y,
                    predicted_probability, probs, output, error, query0, lastRun,
                    prevRun >>

\* print(f"ETH-AUG25        {100 * probability_ITM:.2f} %"), then the loop repeats
PrintAug25 ==
    /\ pc = "print_aug25"
    /\ output' = << FMul(Rat(Hundred), probability_ITM) >>
    /\ iter' = iter + 1
    /\ prevRun' = lastRun
    /\ lastRun' = <<RunRecord(output')>>
    /\ pc' = "start"
    /\ UNCHANGED << script, queryVars, now, time_to_expiration, market, price, dates,
                    time_to_expirations, exp_idx, ITM_probabilities, strikes, prices,
                    Interpolation, fit_kind, fit_x, fit_y, dstrike, probability_ITM,
                    predicted_probability, price_yes, price_no, probs, error, query0 >>

(***************************************************************************)
(* thales_traded_exp_date.py: __main__ calls find_probability once per     *)
(* query.                                                                  *)
(***************************************************************************)
\* The call, up to the price check: now (both calls fall in the hour the
\* program started in), time_to_expiration, price; a price of 0 prints the
\* error and exit()s.
CallFindProbability ==
    /\ pc = "main"
    /\ coin' = MainQueries[iter + 1].coin
    /\ strikelist' = MainQueries[iter + 1].strikelist
    /\ query0' = [coin |-> coin', K |-> K, expiration_time |-> expiration_time,
                  discount_rate |-> discount_rate, strikelist |-> strikelist']
    /\ time_to_expiration' = YearsBetween(expiration_time, now)
    /\ \E m \in Markets :
          /\ Listed(m, now)
          /\ market' = m
          /\ price' = m.index_price
    /\ ITM_probabilities' = <<>>
    /\ fit_kind' = ""
    /\ fit_x' = <<>>
    /\ fit_y' = <<>>
    /\ pc' = IF price' = 0 THEN "exited" ELSE "book"
    /\ error' = IF price' = 0 THEN "exit" ELSE error
    /\ output' = IF price' = 0
                 THEN <<"Error: Unable to fetch the current price from Deribit API.">>
                 ELSE output
    /\ UNCHANGED << script, iter, K, expiration_time, discount_rate, now, dates,
                    time_to_expirations, exp_idx, strikes, prices, Interpolation,
                    dstrike, probability_ITM, predicted_probability, price_yes,
                    price_no, probs, lastRun, prevRun >>

\* The loop over filtered_book: the calls of the target date
FilterBookSummary ==
    /\ pc = "book"
    /\ strikes' = BookStrikes(market.book, expiration_time)
    /\ prices' = BookPrices(market.book, expiration_time, price)
    /\ pc' = "fit_strike"
    /\ UNCHANGED << script, iter, queryVars, now, time_to_expiration, market, price,
                    dates, time_to_expirations, exp_idx, ITM_probabilities,
                    Interpolation, fit_kind, fit_x, fit_y, dstrike, probability_ITM,
                    predicted_probability, price_yes, price_no, probs, output, error,
                    query0, lastRun, prevRun >>

\* Mutation of ComputeProbs: the loop consumes strikelist (strikelist.pop(0))
ComputeProbsPopping ==
    /\ pc = "probs"
    /\ dstrike' = DStrike(price)
    /\ probs' = [i \in 1..Len(strikelist) |->
                   FMul(CallSpread(Interpolation, strikelist[i], dstrike'),
                        Undiscount(time_to_expiration, discount_rate))]
    /\ strikelist' = <<>>
    /\ pc' = "return"
    /\ UNCHANGED << script, iter, coin, K, expiration_time, discount_rate, now,
                    time_to_expiration, market, price, dates, time_to_expirations,
                    exp_idx, ITM_probabilities, strikes, prices, Interpolation,
                    fit_kind, fit_x, fit_y, probability_ITM, predicted_probability,
                    price_yes, price_no, output, error, query0, lastRun, prevRun >>

\* dstrike and the loop over strikelist
ComputeProbs ==
    /\ pc = "probs"
    /\ dstrike' = DStrike(price)
    /\ probs' = [i \in 1..Len(strikelist) |->
                   FMul(CallSpread(Interpolation, strikelist[i], dstrike'),
                        Undiscount(time_to_expiration, discount_rate))]
    /\ pc' = "return"
    /\ UNCHANGED << script, iter, queryVars, now, time_to_expiration, market, price,
                    dates, time_to_expirations, exp_idx, ITM_probabilities, strikes,
                    prices, Interpolation, fit_kind, fit_x, fit_y, probability_ITM,
                    predicted_probability, price_yes, price_no, output, error, query0,
                    lastRun, prevRun >>

\* return price, probs; __main__ prints them and goes on to its next query
ReturnToMain ==
    /\ pc = "return"
    /\ output' = <<Rat(price)>> \o [i \in 1..Len(probs) |-> FMul(Rat(Hundred), probs[i])]
    /\ iter' = iter + 1
    /\ pc' = IF iter' < Len(MainQueries) THEN "main" ELSE "done"
    /\ UNCHANGED << script, queryVars, now, time_to_expiration, market, price, dates,
                    time_to_expirations, exp_idx, ITM_probabilities, strikes, prices,
                    Interpolation, fit_kind, fit_x, fit_y, dstrike, probability_ITM,
                    predicted_probability, price_yes, price_no, probs, error, query0,
                    lastRun, prevRun >>

Next ==
    \/ GetCoinPrice
    \/ CollectDates
    \/ FilterQuotes
    \/ FitStrikeCurve
    \/ ExtractDigital
    \/ FitExpirationCurve
    \/ PriceBinary
    \/ PrintResults
    \/ PrintSep
    \/ ExtractAndPrice
    \/ PrintAug25
    \/ CallFindProbability
    \/ FilterBookSummary
    \/ ComputeProbs
    \/ ReturnToMain

Spec == Init /\ [][Next]_vars

(***************************************************************************)
(* Properties.                                                             *)
(***************************************************************************)
\* The target strikes of the query in hand
TargetStrikes == IF script = "thales" THEN strikelist ELSE <<K>>

StrikeFitCalled == fit_kind = "strike"

\* C1: every (strike, price) point handed to the strike-curve fit lies in the
\* window 0.7 K <= strike <= 1.3 K of the target strike K (in find_probability,
\* of each target strike), and its price is a listed call's mark_price times
\* the index price.
C1_FitPointsInWindow ==
    StrikeFitCalled =>
        \A i \in 1..Len(fit_x) :
            /\ \A t \in 1..Len(TargetStrikes) : InWindow(fit_x[i], TargetStrikes[t])
            /\ \E q \in 1..Len(market.book) :
                  /\ market.book[q].strike = fit_x[i]
                  /\ fit_y[i] = FMul(market.book[q].mark_price, Rat(price))

\* C2: the quadratic fit (of either stage) is never attempted on fewer than 3
\* points; a run that has fewer ends in an explicit InsufficientData failure.
C2_NoFitOnFewPoints ==
    /\ fit_kind # "" => Len(fit_x) >= QuadraticOrder + 1
    /\ (pc = "crashed" /\ fit_kind # "" /\ Len(fit_x) < QuadraticOrder + 1)
          => error = "InsufficientData"

\* The steps that compute dstrike = price / 10000 and divide by it
DivisionSteps == {"extract", "extract_price", "probs"}

\* C3: no execution reaches the division by dstrike with an index price of 0,
\* and dstrike, once assigned, is never 0.
C3_NoDivisionByZeroSpot ==
    /\ pc \in DivisionSteps => price # 0
    /\ dstrike # Rat(0)

\* C4: wherever the binary prices have been computed, price_yes + price_no is
\* exp(-discount_rate * t) and price_yes is p * exp(-discount_rate * t), p
\* being the interpolated probability (two-stage programs) or the undiscounted
\* call spread (AUG25).
C4_DiscountConsistency ==
    /\ pc = "print" =>
          /\ FAdd(price_yes, price_no) = Discount(time_to_expiration, discount_rate)
          /\ price_yes = FMul(predicted_probability,
                              Discount(time_to_expiration, discount_rate))
    /\ pc = "print_aug25" =>
          /\ FAdd(price_yes, price_no) = Discount(time_to_expiration, discount_rate)
          /\ price_yes = FMul(probability_ITM,
                              Discount(time_to_expiration, discount_rate))

\* C5: two consecutive iterations of a polling loop that were answered from the
\* same index price and quotes produced the same curves, probabilities, prices
\* and printed output.
C5_Idempotent ==
    (script \in PollingScripts /\ lastRun # <<>> /\ prevRun # <<>>
        /\ lastRun[1].input = prevRun[1].input)
    => lastRun[1].result = prevRun[1].result

C5_Witness ==
    /\ script = "sep"
    /\ lastRun # <<>>
    /\ prevRun # <<>>
    /\ lastRun[1].input = prevRun[1].input
    /\ ~IsNaN(lastRun[1].result.predicted_probability)

\* C6: a failure is local to one query: the step in which a query fails leads
\* to the next query (the loop's head, the next call of __main__), not to the
\* end of the process.
C6_FailureIsLocal == [][error' # error => pc' \in {"start", "main"}]_vars

DatesCollected == script \in {"any", "sep"} /\ pc \notin {"start", "names"}

FirstIndex(date, names) ==
    CHOOSE i \in 1..Len(names) :
        /\ StrpTime(names[i].date) = date
        /\ \A j \in 1..(i - 1) : StrpTime(names[j].date) # date

\* C7: once collected, dates holds every expiration date of option_names
\* exactly once, in the order of first occurrence; time_to_expirations has one
\* distinct entry per date, and the expiration fit is handed exactly one point
\* per date, no two with the same time to expiration.
C7_DatesDeduplicated ==
    DatesCollected =>
        LET names == CallNames(market.book)
        IN  /\ \A n \in 1..Len(names) : InSeq(StrpTime(names[n].date), dates)
            /\ \A i \in 1..Len(dates) :
                  \E n \in 1..Len(names) : StrpTime(names[n].date) = dates[i]
            /\ \A i, j \in 1..Len(dates) :
                  i < j => /\ dates[i] # dates[j]
                           /\ FirstIndex(dates[i], names) < FirstIndex(dates[j], names)
                           /\ time_to_expirations[i] # time_to_expirations[j]
            /\ Len(time_to_expirations) = Len(dates)
            /\ fit_kind = "expiration" =>
                  /\ Len(fit_x) = Len(dates)
                  /\ Len(fit_y) = Len(dates)
                  /\ ~HasDuplicates(fit_x)

C7_Witness ==
    /\ DatesCollected
    /\ fit_kind = "expiration"
    /\ Len(dates) >= 3
    /\ Len(CallNames(market.book)) > Len(dates)
    /\ pc = "price"

\* C8: the strike sequence handed to the strike-curve fit is sorted ascending
\* and holds no strike twice.
C8_FitStrikesAscending ==
    StrikeFitCalled => \A i \in 1..(Len(fit_x) - 1) : fit_x[i] < fit_x[i + 1]

\* C9: the query (coin, K, expiration_time, discount_rate, and
\* find_probability's strikelist) is what it was before the run, after any
\* number of steps.
C9_QueryUnchanged == Query = query0

C9_Witness ==
    /\ script = "thales"
    /\ pc = "return"
    /\ iter = 1
    /\ Len(strikelist) = 2

\* C10: every entry of time_to_expirations is >= 0.
C10_TimesNonNegative ==
    \A i \in 1..Len(time_to_expirations) : FLeq(Rat(0), time_to_expirations[i])

\* y falls strictly along the sequence
Decreasing(y) == \A i \in 1..(Len(y) - 1) : FLess(y[i + 1], y[i])

\* The probabilities the digital extractor has computed from the strike curve
\* that Interpolation holds
Extracted ==
    CASE script = "thales" -> pc = "return"
      [] script = "aug25" -> pc = "print_aug25"
      [] OTHER -> StrikeFitCalled /\ pc \in {"filter", "fit_exp"}

RawProbabilities == IF script = "thales" THEN probs ELSE <<probability_ITM>>

ScenarioFitted ==
    /\ script # "thales"
    /\ Extracted
    /\ K = ScenarioStrike
    /\ price = ScenarioSpot
    /\ fit_x = ScenarioStrikes
    /\ fit_y = Rats(ScenarioPrices)

ScenarioSlope == <<7, 10>>

\* C12 as stated: for strikes 25000, 26000, 27000 with dollar prices 3500,
\* 2800, 2100, spot 26500 and K = 26000 the fitted quadratic is exactly 2800
\* at 26000, dstrike is 2.65, and the extractor's probability lies between 0.6
\* and 0.7.
C12_ScenarioInRange ==
    ScenarioFitted =>
        /\ Evaluate(Interpolation, Rat(ScenarioStrike)) = Rat(2800)
        /\ dstrike = <<53, 20>>
        /\ FLeq(<<3, 5>>, probability_ITM)
        /\ FLeq(probability_ITM, ScenarioSlope)

\* C12, amended: in that scenario the fitted quadratic is exactly 2800 at
\* 26000, dstrike is 2.65, the call spread divided by dstrike is exactly 0.7,
\* and the extractor's probability is 0.7 * exp(discount_rate *
\* time_to_expiration), which is above 0.7 for an expiration in the future.
C12_ScenarioUndiscounted ==
    ScenarioFitted =>
        /\ Evaluate(Interpolation, Rat(ScenarioStrike)) = Rat(2800)
        /\ dstrike = <<53, 20>>
        /\ CallSpread(Interpolation, K, dstrike) = ScenarioSlope
        /\ probability_ITM = FMul(ScenarioSlope, Undiscount(time_to_expiration, discount_rate))
        /\ (FLess(Rat(0), time_to_expiration) => FLess(ScenarioSlope, probability_ITM))

C12_Witness ==
    /\ ScenarioFitted
    /\ pc = "print_aug25"
    /\ FLess(Rat(0), time_to_expiration)
    /\ price_yes = ScenarioSlope

\* The print statements of the last iteration showed v, as it is or in percent
Printed(v, out) == InSeq(v, out) \/ InSeq(FMul(Rat(Hundred), v), out)

\* C13: every iteration of the continuously printing ETH SEP script prints
\* the predicted probability of the target query (the expiration curve
\* evaluated at the target time_to_expiration) together with the predicted
\* binary option prices price_yes and price_no.
C13_SepPrintsPrediction ==
    (script = "sep" /\ lastRun # <<>>) =>
        LET r == lastRun[1].result
        IN  /\ Printed(r.predicted_probability, r.output)
            /\ Printed(r.price_yes, r.output)
            /\ Printed(r.price_no, r.output)

\* The discounted finite-difference value of the i-th expiration date: the
\* call spread of the curve through that date's quotes, divided by dstrike
DateSpread(i) ==
    LET price_list == PriceList(CallNamesFor(market.book, dates[i]))
        curve == Interp1d(Rats(FilterStrikes(price_list, K)),
                          FilterPrices(price_list, K, price))
    IN  CallSpread(curve, K, DStrike(price))

\* C14: in the two-stage programs every point of the expiration curve is the
\* discounted finite-difference value of its date times one and the same
\* factor exp(discount_rate * t), t being the time to the TARGET expiration;
\* the factor does not depend on the date's own time to expiration.
C14_CommonUndiscountFactor ==
    DatesCollected =>
        /\ time_to_expiration = YearsBetween(expiration_time, now)
        /\ \A i \in 1..Len(ITM_probabilities) :
              ITM_probabilities[i] =
                  FMul(DateSpread(i), Undiscount(time_to_expiration, discount_rate))

C14_Witness ==
    /\ DatesCollected
    /\ pc = "price"
    /\ Len(ITM_probabilities) >= QuadraticOrder + 1
    /\ \A i \in 1..Len(ITM_probabilities) :
          /\ ~IsNaN(ITM_probabilities[i])
          /\ ITM_probabilities[i] # Rat(0)
          /\ time_to_expirations[i] # time_to_expiration
    /\ time_to_expirations[1] # time_to_expirations[2]

=============================================================================
